---- MODULE Spec2Model ----
(***************************************************************************)
(* Model of the client session layer of the library chatbot:               *)
(* client/src/context/SocketContextProvider.jsx.  The provider owns one    *)
(* socket.io channel, reacts to its inbound events and exposes four emit   *)
(* operations.  The conversation log, the typing flag and the session      *)
(* storage slot belong to MessageContextProvider, whose operations         *)
(* (addMessage, setIsTyping, resetState) are called from the handlers.     *)
(***************************************************************************)
EXTENDS Integers, Sequences, FiniteSets, TLC

\* ------------------------------------------------------------------ bounds
MaxLog == 4        \* longest conversation log explored
MaxOut == 2        \* most outbound events (sent + buffered) explored

\* --------------------------------------------------------------- constants
Undefined == "undefined"
Null == "null"
ICD == "io client disconnect"
WelcomeText == "Hi this is the Library Smart Chatbot. How may I help you?"
ErrorText ==
  "Some unexpected errors happened. Please click the button at the bottom to continue your conversation with the real librarian."

\* inbound payloads the backend may deliver
MsgPayloads ==
  { [messageId |-> "42", message |-> "Try the 2nd floor."],
    [messageId |-> "43", message |-> "Open until 9pm."] }
HistoryPayloads == { "history-A", "history-B" }
\* disconnect reasons not requested by the client
OtherReasons == { "transport close", "io server disconnect" }
UserTexts == { "Where is the library?" }
EventNames ==
  { "connect", "message", "unexpected_error", "disconnect",
    "connect_error", "connect_timeout" }

VARIABLES
  messages,             \* MessageContext: the conversation log
  isTyping,             \* MessageContext: typing indicator
  storage,              \* sessionStorage slot 'chat_messages': << >> or <<item>>
  isConnected,          \* useState(false)
  attemptedConnection,  \* useState(false)
  conversationHistory,  \* useState('')
  curSession,           \* useRef(true)
  socket,               \* socket.current: Null or the channel's state
  listeners,            \* listeners attached to the channel, per event name
  sendBuffer,           \* events emitted while the channel was not open
  outbox,               \* events that reached the backend, in order
  phase,                \* "init" (rendered), "mounted" (effect ran), "unmounted"
  last,                 \* the operation performed by the last step
  channels,             \* number of channels created by io() so far
  adapter               \* the backend adapter call in progress, if any

vars == << messages, isTyping, storage, isConnected, attemptedConnection,
           conversationHistory, curSession, socket, listeners, sendBuffer,
           outbox, phase, last, channels, adapter >>

\* the client state as one value, so that handlers are functions on it
Cur ==
  [ messages |-> messages, isTyping |-> isTyping, storage |-> storage,
    isConnected |-> isConnected, attemptedConnection |-> attemptedConnection,
    conversationHistory |-> conversationHistory, curSession |-> curSession,
    socket |-> socket, listeners |-> listeners, sendBuffer |-> sendBuffer,
    outbox |-> outbox, channels |-> channels ]

Apply(s) ==
  /\ messages' = s.messages
  /\ isTyping' = s.isTyping
  /\ storage' = s.storage
  /\ isConnected' = s.isConnected
  /\ attemptedConnection' = s.attemptedConnection
  /\ conversationHistory' = s.conversationHistory
  /\ curSession' = s.curSession
  /\ socket' = s.socket
  /\ listeners' = s.listeners
  /\ sendBuffer' = s.sendBuffer
  /\ outbox' = s.outbox
  /\ channels' = s.channels
  /\ UNCHANGED adapter

\* ------------------------------------------------------------------- JSON
\* JSON.stringify of the log: one object per message, each a list of
\* key/value pairs; a key whose value is undefined is omitted.
StringifyMessage(m) ==
  (IF m.id = Undefined THEN << >> ELSE << <<"id", m.id>> >>)
    \o << <<"text", m.text>>, <<"sender", m.sender>> >>

JSONstringify(log) == [ i \in 1..Len(log) |-> StringifyMessage(log[i]) ]

\* value of a key in a parsed object; an absent key reads as undefined
Field(obj, key) ==
  IF \E i \in 1..Len(obj) : obj[i][1] = key
    THEN LET i == CHOOSE j \in 1..Len(obj) : obj[j][1] = key IN obj[i][2]
    ELSE Undefined

ParseMessage(obj) ==
  [ id |-> Field(obj, "id"), text |-> Field(obj, "text"),
    sender |-> Field(obj, "sender") ]

JSONparse(str) == [ i \in 1..Len(str) |-> ParseMessage(str[i]) ]

\* sessionStorage.setItem('chat_messages', item): the slot holds the item
setItem(item) == << item >>

\* the log a reload reads back from the storage slot (getItem gives null
\* for an absent item, and the log then starts empty)
LoadMessages(slot) == IF slot = << >> THEN << >> ELSE JSONparse(slot[1])

\* --------------------------------------------------------- MessageContext
addMessage(s, message, sender, id) ==
  LET updatedMessages ==
        Append(s.messages, [ id |-> id, text |-> message, sender |-> sender ])
  IN [ s EXCEPT !.messages = updatedMessages,
                !.storage = setItem(JSONstringify(updatedMessages)) ]

setIsTyping(s, b) == [ s EXCEPT !.isTyping = b ]

resetState(s) ==
  [ s EXCEPT !.messages = << >>, !.isTyping = FALSE,
             !.storage = setItem(JSONstringify(<< >>)) ]

\* -------------------------------------------------------------- socket.io
\* socket.emit: sent at once on an open channel, buffered otherwise
emit(s, ev, arg) ==
  IF s.socket = "open"
    THEN [ s EXCEPT !.outbox = Append(@, [ ev |-> ev, arg |-> arg ]) ]
    ELSE [ s EXCEPT !.sendBuffer = Append(@, [ ev |-> ev, arg |-> arg ]) ]

\* socket.connect: no effect on an open or opening channel
connect(s) ==
  IF s.socket = "closed" THEN [ s EXCEPT !.socket = "opening" ] ELSE s

\* ---------------------------------------------------------------- handlers
welcomeMessage ==
  [ id |-> Undefined, text |-> WelcomeText, sender |-> "chatbot" ]

\* variant: the session stays armed after the welcome injection
onConnectKeepsSession(s) ==
  LET s1 == IF s.curSession
              THEN LET updatedMessages == Append(s.messages, welcomeMessage)
                   IN [ s EXCEPT !.messages = updatedMessages,
                                 !.storage = setItem(JSONstringify(updatedMessages)) ]
              ELSE s
  IN setIsTyping([ s1 EXCEPT !.isConnected = TRUE,
                             !.attemptedConnection = TRUE ], FALSE)

\* variant: the welcome injection persists the log it was given
onConnectStalePersist(s) ==
  LET s1 == IF s.curSession
              THEN LET updatedMessages == Append(s.messages, welcomeMessage)
                   IN [ s EXCEPT !.messages = updatedMessages,
                                 !.storage = setItem(JSONstringify(s.messages)),
                                 !.curSession = FALSE ]
              ELSE s
  IN setIsTyping([ s1 EXCEPT !.isConnected = TRUE,
                             !.attemptedConnection = TRUE ], FALSE)

onConnect(s) ==
  LET s1 == IF s.curSession
              THEN LET updatedMessages == Append(s.messages, welcomeMessage)
                   IN [ s EXCEPT !.messages = updatedMessages,
                                 !.storage = setItem(JSONstringify(updatedMessages)),
                                 !.curSession = FALSE ]
              ELSE s
  IN setIsTyping([ s1 EXCEPT !.isConnected = TRUE,
                             !.attemptedConnection = TRUE ], FALSE)

\* variant: the delivery id is not passed on
onMessageNoId(s, payload) ==
  addMessage(setIsTyping(s, FALSE), payload.message, "chatbot", Undefined)

onMessage(s, payload) ==
  addMessage(setIsTyping(s, FALSE), payload.message, "chatbot",
             payload.messageId)

\* variant: the error handler also closes the channel
onUnexpectedErrorClosing(s, history) ==
  LET s1 == addMessage(setIsTyping(s, FALSE), ErrorText, "chatbot", Undefined)
  IN [ s1 EXCEPT !.conversationHistory = history, !.isConnected = FALSE,
                 !.socket = "closed" ]

onUnexpectedError(s, history) ==
  LET s1 == addMessage(setIsTyping(s, FALSE), ErrorText, "chatbot", Undefined)
  IN [ s1 EXCEPT !.conversationHistory = history, !.isConnected = FALSE ]

\* variant: the reset does not re-arm the session
onDisconnectNoRearm(s, reason) ==
  IF reason = ICD
    THEN connect(resetState(s))
    ELSE [ s EXCEPT !.isConnected = FALSE, !.attemptedConnection = TRUE ]

\* variant: every disconnect resets, whatever its reason
onDisconnectAnyReason(s, reason) ==
  [ connect([ resetState(s) EXCEPT !.curSession = TRUE ])
      EXCEPT !.isConnected = FALSE, !.attemptedConnection = TRUE ]

onDisconnect(s, reason) ==
  IF reason = ICD
    THEN connect([ resetState(s) EXCEPT !.curSession = TRUE ])
    ELSE [ s EXCEPT !.isConnected = FALSE, !.attemptedConnection = TRUE ]

onConnectError(s) ==
  [ s EXCEPT !.isConnected = FALSE, !.attemptedConnection = TRUE ]

onConnectTimeout(s) ==
  [ s EXCEPT !.isConnected = FALSE, !.attemptedConnection = TRUE ]

Handler(s, ev, arg) ==
  CASE ev = "connect" -> onConnect(s)
    [] ev = "message" -> onMessage(s, arg)
    [] ev = "unexpected_error" -> onUnexpectedError(s, arg)
    [] ev = "disconnect" -> onDisconnect(s, arg)
    [] ev = "connect_error" -> onConnectError(s)
    [] ev = "connect_timeout" -> onConnectTimeout(s)

\* the channel calls every listener attached for the event, in turn
RECURSIVE RunListeners(_, _, _, _)
RunListeners(s, ev, arg, n) ==
  IF n = 0 THEN s ELSE RunListeners(Handler(s, ev, arg), ev, arg, n - 1)

dispatch(s, ev, arg) == RunListeners(s, ev, arg, s.listeners[ev])

\* socket.disconnect: closes the channel; an open channel fires
\* 'disconnect' with reason 'io client disconnect' before returning
disconnect(s) ==
  IF s.socket = "open"
    THEN dispatch([ s EXCEPT !.socket = "closed" ], "disconnect", ICD)
    ELSE [ s EXCEPT !.socket = "closed" ]

off(s, ev) == [ s EXCEPT !.listeners[ev] = 0 ]

\* ------------------------------------------------------------------- Init
\* no backend adapter call is in progress
NoCall == [ fn |-> "none" ]

\* the provider as rendered for the first time in a tab
ClientInit ==
  /\ messages = << >>
  /\ isTyping = FALSE
  /\ storage = << >>
  /\ isConnected = FALSE
  /\ attemptedConnection = FALSE
  /\ conversationHistory = ""
  /\ curSession = TRUE
  /\ socket = Null
  /\ listeners = [ e \in EventNames |-> 0 ]
  /\ sendBuffer = << >>
  /\ outbox = << >>
  /\ phase = "init"
  /\ last = [ ev |-> "none", arg |-> Undefined, reason |-> "none",
               threw |-> FALSE ]
  /\ channels = 0

Init == ClientInit /\ adapter = NoCall

Op(ev, arg, reason) ==
  last' = [ ev |-> ev, arg |-> arg, reason |-> reason, threw |-> FALSE ]

\* --------------------------------------------------------------- the effect
\* useEffect(..., []): creates the channel (io() starts connecting) and
\* attaches the listeners; 'unexpected_error' is attached twice
effect(s) ==
  [ s EXCEPT !.socket = "opening",
             !.channels = @ + 1,
             !.sendBuffer = << >>,
             !.listeners = [ e \in EventNames |->
                               IF e = "unexpected_error" THEN 2 ELSE 1 ] ]

useEffect ==
  /\ phase = "init"
  /\ Apply(effect(Cur))
  /\ phase' = "mounted"
  /\ Op("mount", Undefined, "none")

cleanup(s) ==
  disconnect(disconnect(
    off(off(off(off(s, "message"), "disconnect"), "connect_error"),
        "connect_timeout")))

Unmount ==
  /\ phase = "mounted"
  /\ Apply(cleanup(Cur))
  /\ phase' = "unmounted"
  /\ Op("unmount", Undefined, "none")

\* ------------------------------------------------------------ inbound events
\* successful handshake: the channel opens, flushes its send buffer and
\* fires 'connect'
Connect ==
  /\ socket = "opening"
  /\ curSession => Len(messages) < MaxLog
  /\ Apply(dispatch([ Cur EXCEPT !.socket = "open",
                                 !.outbox = @ \o sendBuffer,
                                 !.sendBuffer = << >> ],
                    "connect", Undefined))
  /\ UNCHANGED phase
  /\ Op("connect", Undefined, "none")

Message ==
  /\ socket = "open"
  /\ Len(messages) < MaxLog
  /\ \E p \in MsgPayloads :
       /\ Apply(dispatch(Cur, "message", p))
       /\ Op("message", p, "none")
  /\ UNCHANGED phase

UnexpectedError ==
  /\ socket = "open"
  /\ Len(messages) + listeners["unexpected_error"] <= MaxLog
  /\ \E h \in HistoryPayloads :
       /\ Apply(dispatch(Cur, "unexpected_error", h))
       /\ Op("unexpected_error", h, "none")
  /\ UNCHANGED phase

\* the channel is lost or closed by the server; the transport reconnects
\* by itself except after a server-side close
Disconnect ==
  /\ socket = "open"
  /\ \E r \in OtherReasons :
       /\ Apply(dispatch([ Cur EXCEPT !.socket =
                             IF r = "io server disconnect"
                               THEN "closed" ELSE "opening" ],
                         "disconnect", r))
       /\ Op("disconnect", r, r)
  /\ UNCHANGED phase

ConnectError ==
  /\ socket = "opening"
  /\ Apply(dispatch(Cur, "connect_error", Undefined))
  /\ UNCHANGED phase
  /\ Op("connect_error", Undefined, "none")

ConnectTimeout ==
  /\ socket = "opening"
  /\ Apply(dispatch(Cur, "connect_timeout", Undefined))
  /\ UNCHANGED phase
  /\ Op("connect_timeout", Undefined, "none")

\* ------------------------------------------------------- outbound operations
\* variant: the channel reference is not tested
sendUserMessageUnguarded(s, message) == emit(s, "message", message)

sendUserMessage(s, message) ==
  IF s.socket # Null THEN emit(s, "message", message) ELSE s

offlineTicketSubmit(s, formData) ==
  IF s.socket # Null THEN emit(s, "createTicket", formData) ELSE s

\* variant: the rating closes the channel as the feedback does
sendMessageRatingClosing(s, messageRating) ==
  IF s.socket # Null
    THEN disconnect(emit(s, "messageRating", messageRating))
    ELSE s

sendMessageRating(s, messageRating) ==
  IF s.socket # Null THEN emit(s, "messageRating", messageRating) ELSE s

\* variant: the channel is closed before the feedback is emitted
sendUserFeedbackCloseFirst(s, userFeedback) ==
  IF s.socket # Null
    THEN emit(disconnect(s), "userFeedback", userFeedback)
    ELSE s

sendUserFeedback(s, userFeedback) ==
  IF s.socket # Null
    THEN disconnect(emit(s, "userFeedback", userFeedback))
    ELSE s

Rendered == phase \in { "init", "mounted" }
OutRoom == Len(outbox) + Len(sendBuffer) < MaxOut

SendUserMessage ==
  /\ Rendered /\ OutRoom
  /\ \E t \in UserTexts :
       /\ Apply(sendUserMessage(Cur, t))
       /\ Op("sendUserMessage", t, "none")
  /\ UNCHANGED phase

OfflineTicketSubmit ==
  /\ Rendered /\ OutRoom
  /\ Apply(offlineTicketSubmit(Cur, "form"))
  /\ UNCHANGED phase
  /\ Op("offlineTicketSubmit", "form", "none")

SendMessageRating ==
  /\ Rendered /\ OutRoom
  /\ Apply(sendMessageRating(Cur, "rating"))
  /\ UNCHANGED phase
  /\ Op("sendMessageRating", "rating", "none")

SendUserFeedback ==
  /\ Rendered /\ OutRoom
  /\ Apply(sendUserFeedback(Cur, "feedback"))
  /\ UNCHANGED phase
  /\ Op("sendUserFeedback", "feedback",
        IF socket = "open" /\ listeners["disconnect"] > 0 THEN ICD ELSE "none")

\* the chat input: the user's text is appended to the log, the typing
\* indicator is raised and the text is sent
UserSubmit ==
  /\ phase = "mounted" /\ OutRoom
  /\ Len(messages) < MaxLog
  /\ \E t \in UserTexts :
       /\ Apply(sendUserMessage(
                  setIsTyping(addMessage(Cur, t, "user", Undefined), TRUE), t))
       /\ Op("userSubmit", t, "none")
  /\ UNCHANGED phase

Next ==
  \/ useEffect
  \/ Unmount
  \/ Connect
  \/ Message
  \/ UnexpectedError
  \/ Disconnect
  \/ ConnectError
  \/ ConnectTimeout
  \/ SendUserMessage
  \/ OfflineTicketSubmit
  \/ SendMessageRating
  \/ SendUserFeedback
  \/ UserSubmit

Spec == Init /\ [][Next]_vars

TypeOK ==
  /\ Len(messages) <= MaxLog
  /\ isTyping \in BOOLEAN /\ isConnected \in BOOLEAN
  /\ attemptedConnection \in BOOLEAN /\ curSession \in BOOLEAN
  /\ socket \in { Null, "opening", "open", "closed" }
  /\ phase \in { "init", "mounted", "unmounted" }
  /\ Len(outbox) + Len(sendBuffer) <= MaxOut
\* ------------------------------------------------ the effect run once more
MaxChannels == 2   \* most channels created on one instance

\* development builds (StrictMode, fast refresh) run the cleanup and then
\* the effect again on the same instance: refs and state are kept
EffectAgain ==
  /\ phase = "unmounted"
  /\ channels < MaxChannels
  /\ Apply(effect(Cur))
  /\ phase' = "mounted"
  /\ Op("remount", Undefined, "none")

NextStrict == Next \/ EffectAgain

SpecStrict == Init /\ [][NextStrict]_vars

\* ------------------------------------------------------------ page reload
\* the tab is reloaded: a new provider instance is rendered (refs and
\* state start from their initial values, the old channel is gone) and the
\* log is read back from the storage slot of the tab
Reload ==
  /\ phase = "mounted"
  /\ messages' = LoadMessages(storage)
  /\ isTyping' = FALSE
  /\ isConnected' = FALSE
  /\ attemptedConnection' = FALSE
  /\ conversationHistory' = ""
  /\ curSession' = TRUE
  /\ socket' = Null
  /\ listeners' = [ e \in EventNames |-> 0 ]
  /\ sendBuffer' = << >>
  /\ channels' = 0
  /\ phase' = "init"
  /\ UNCHANGED << storage, outbox, adapter >>
  /\ Op("reload", Undefined, "none")

NextReload == Next \/ Reload

SpecReload == Init /\ [][NextReload]_vars

\* --------------------------------------------------- ill-formed deliveries
\* a `message` event whose payload is missing, null or a bare string
MalformedPayloads == { Undefined, Null, "plain text" }

\* the listener's parameter pattern { messageId, message } cannot be bound
\* to undefined or null: the call throws a TypeError before its first
\* statement
DestructureThrows(payload) == payload \in { Undefined, Null }

\* bound to a primitive, both names are undefined
Destructure(payload) == [ messageId |-> Undefined, message |-> Undefined ]

MalformedMessage ==
  /\ socket = "open"
  /\ listeners["message"] > 0
  /\ Len(messages) < MaxLog
  /\ \E p \in MalformedPayloads :
       IF DestructureThrows(p)
         THEN /\ Apply(Cur)
              /\ last' = [ ev |-> "message", arg |-> p, reason |-> "none",
                           threw |-> TRUE ]
         ELSE /\ Apply(dispatch(Cur, "message", Destructure(p)))
              /\ Op("message", p, "none")
  /\ UNCHANGED phase

NextMalformed == Next \/ MalformedMessage

SpecMalformed == Init /\ [][NextMalformed]_vars

\* ------------------------------------------- the earlier provider variant
\* The provider of part_000: the effect depends on [isConnected], creates
\* the channel only when socket.current is null and attaches the listeners
\* only in the other branch; firstSession plays the part of curSession.
VariantEvents ==
  { "connect", "message", "disconnect", "connect_error", "connect_timeout" }

variantOnMessage(s, message) ==
  addMessage(setIsTyping(s, FALSE), message, "chatbot", Undefined)

variantOnDisconnect(s) ==
  [ s EXCEPT !.isConnected = FALSE, !.attemptedConnection = TRUE ]

VariantHandler(s, ev, arg) ==
  CASE ev = "connect" -> onConnect(s)
    [] ev = "message" -> variantOnMessage(s, arg)
    [] ev = "disconnect" -> variantOnDisconnect(s)
    [] ev = "connect_error" -> onConnectError(s)
    [] ev = "connect_timeout" -> onConnectTimeout(s)

RECURSIVE VariantRunListeners(_, _, _, _)
VariantRunListeners(s, ev, arg, n) ==
  IF n = 0 THEN s
  ELSE VariantRunListeners(VariantHandler(s, ev, arg), ev, arg, n - 1)

variantDispatch(s, ev, arg) ==
  VariantRunListeners(s, ev, arg, s.listeners[ev])

\* one run of the effect body
variantEffect(s) ==
  IF s.socket = Null
    THEN [ s EXCEPT !.socket = "opening", !.channels = @ + 1 ]
    ELSE [ s EXCEPT !.listeners =
                      [ e \in EventNames |->
                          IF e \in VariantEvents THEN @[e] + 1 ELSE @[e] ] ]

\* the cleanup returned by a run that attached the listeners
variantCleanup(s) ==
  off(off(off(off(s, "message"), "disconnect"), "connect_error"),
      "connect_timeout")

\* the state after a handler, and after the effect has run again when the
\* handler changed isConnected
VariantApply(s) ==
  Apply(IF s.isConnected # isConnected
          THEN variantEffect(variantCleanup(s))
          ELSE s)

VariantMount ==
  /\ phase = "init"
  /\ Apply(variantEffect(Cur))
  /\ phase' = "mounted"
  /\ Op("mount", Undefined, "none")

VariantConnect ==
  /\ socket = "opening"
  /\ (curSession /\ listeners["connect"] > 0) => Len(messages) < MaxLog
  /\ VariantApply(variantDispatch([ Cur EXCEPT !.socket = "open",
                                               !.outbox = @ \o sendBuffer,
                                               !.sendBuffer = << >> ],
                                  "connect", Undefined))
  /\ UNCHANGED phase
  /\ Op("connect", Undefined, "none")

VariantMessage ==
  /\ socket = "open"
  /\ Len(messages) < MaxLog
  /\ \E p \in MsgPayloads :
       /\ VariantApply(variantDispatch(Cur, "message", p.message))
       /\ Op("message", p.message, "none")
  /\ UNCHANGED phase

VariantDisconnect ==
  /\ socket = "open"
  /\ \E r \in OtherReasons :
       /\ VariantApply(variantDispatch(
            [ Cur EXCEPT !.socket = IF r = "io server disconnect"
                                      THEN "closed" ELSE "opening" ],
            "disconnect", r))
       /\ Op("disconnect", r, r)
  /\ UNCHANGED phase

VariantConnectError ==
  /\ socket = "opening"
  /\ VariantApply(variantDispatch(Cur, "connect_error", Undefined))
  /\ UNCHANGED phase
  /\ Op("connect_error", Undefined, "none")

VariantConnectTimeout ==
  /\ socket = "opening"
  /\ VariantApply(variantDispatch(Cur, "connect_timeout", Undefined))
  /\ UNCHANGED phase
  /\ Op("connect_timeout", Undefined, "none")

NextVariant ==
  \/ VariantMount
  \/ VariantConnect
  \/ VariantMessage
  \/ VariantDisconnect
  \/ VariantConnectError
  \/ VariantConnectTimeout
  \/ SendUserMessage
  \/ OfflineTicketSubmit
  \/ UserSubmit

SpecVariant == Init /\ [][NextVariant]_vars

\* ------------------------------------------- CancelReservationToolService
MaxCalls == 2      \* most tool invocations explored

\* bookingID values the tool may be invoked with
BookingIDs == { Null, "null", Undefined, "undefined", "cs_101", "cs_202" }
AccessTokens == { "token-1", "token-2" }
\* what the reservation API may answer to the POST
ApiAnswers ==
  { [ kind |-> "data", cancelled |-> TRUE, error |-> Undefined ],
    [ kind |-> "data", cancelled |-> FALSE, error |-> "booking not found" ],
    [ kind |-> "data", cancelled |-> FALSE, error |-> Undefined ],
    [ kind |-> "empty" ],          \* an empty array: data[0] is undefined
    [ kind |-> "failed" ] }        \* the request itself fails

MissingBookingID(bookingID) ==
  bookingID \in { Null, "null", Undefined, "undefined" }

\* run(bookingID) once the POST has been answered
run(answer) ==
  IF answer.kind = "data"
    THEN IF answer.cancelled
           THEN [ kind |-> "return", success |-> TRUE, error |-> Null ]
           ELSE [ kind |-> "return", success |-> FALSE,
                  error |-> answer.error ]
    ELSE [ kind |-> "throw" ]

\* toolRunForLlm after `await this.run(bookingID)`
toolRunForLlm(bookingID, answer) ==
  LET response == run(answer)
  IN IF response.kind = "return"
       THEN IF response.success
              THEN [ kind |-> "return", text |-> "cancelled successfully",
                     bookingID |-> bookingID, error |-> Undefined ]
              ELSE [ kind |-> "return",
                     text |-> "not cancelled successfully",
                     bookingID |-> bookingID, error |-> response.error ]
       ELSE [ kind |-> "throw" ]

InitCancel ==
  /\ ClientInit
  /\ adapter = [ fn |-> "toolRunForLlm", pc |-> "idle", accessToken |-> "",
                 bookingID |-> Undefined, bearer |-> Null, posts |-> 0,
                 calls |-> 0, result |-> [ kind |-> "none" ] ]

\* the authorization service publishes a refreshed token
TokenRefresh ==
  /\ \E tok \in AccessTokens :
       /\ tok # adapter.accessToken
       /\ adapter' = [ adapter EXCEPT !.accessToken = tok ]
  /\ UNCHANGED << messages, isTyping, storage, isConnected,
                  attemptedConnection, conversationHistory, curSession,
                  socket, listeners, sendBuffer, outbox, phase, last,
                  channels >>

\* toolRunForLlm up to its await: the parameter test, then the POST
ToolCall ==
  /\ adapter.pc \in { "idle", "done" }
  /\ adapter.calls < MaxCalls
  /\ \E b \in BookingIDs :
       adapter' =
         IF MissingBookingID(b)
           THEN [ adapter EXCEPT
                    !.pc = "done", !.bookingID = b, !.calls = @ + 1,
                    !.posts = 0, !.bearer = Null,
                    !.result = [ kind |-> "return",
                                 text |-> "missing parameter bookingID",
                                 bookingID |-> b, error |-> Undefined ] ]
           ELSE [ adapter EXCEPT
                    !.pc = "run", !.bookingID = b, !.calls = @ + 1,
                    !.posts = 1, !.bearer = adapter.accessToken,
                    !.result = [ kind |-> "none" ] ]
  /\ UNCHANGED << messages, isTyping, storage, isConnected,
                  attemptedConnection, conversationHistory, curSession,
                  socket, listeners, sendBuffer, outbox, phase, last,
                  channels >>

\* the POST is answered and toolRunForLlm settles
ToolSettle ==
  /\ adapter.pc = "run"
  /\ \E a \in ApiAnswers :
       adapter' = [ adapter EXCEPT
                      !.pc = "done",
                      !.result = toolRunForLlm(adapter.bookingID, a) ]
  /\ UNCHANGED << messages, isTyping, storage, isConnected,
                  attemptedConnection, conversationHistory, curSession,
                  socket, listeners, sendBuffer, outbox, phase, last,
                  channels >>

NextCancel == TokenRefresh \/ ToolCall \/ ToolSettle

SpecCancel == InitCancel /\ [][NextCancel]_vars

\* ------------------------------------------------------- catalog search
MaxRecords == 3    \* most records in one search response

NotAvailable == "Not available"
NaN == "NaN"

\* raw records the catalog API may return; NullRecord stands for a null
\* entry in the Records array
NullRecord ==
  [ null |-> TRUE, Items |-> << >>, PubType |-> Undefined, Holdings |-> << >> ]
FullRecord ==
  [ null |-> FALSE,
    Items |-> << [ Name |-> "Title", Data |-> "Dune" ],
                 [ Name |-> "Author", Data |-> "Herbert, Frank" ],
                 [ Name |-> "TitleSource", Data |-> "Chilton, 1965" ],
                 [ Name |-> "Subject", Data |-> "Science fiction" ] >>,
    PubType |-> "Book",
    Holdings |-> << << [ Sublocation |-> "King Library",
                         ShelfLocator |-> "PS3558" ] >> >> ]
BareRecord ==
  [ null |-> FALSE,
    Items |-> << [ Name |-> "Title", Data |-> "" ],
                 [ Name |-> "TitleSource", Data |-> "n.d." ] >>,
    PubType |-> Undefined,
    Holdings |-> << >> ]         \* no Holdings array, or an empty one
RawRecords == { NullRecord, FullRecord, BareRecord }

Queries == { "dune", "zzzz" }

RECURSIVE SeqsUpTo(_, _)
SeqsUpTo(S, n) ==
  IF n = 0 THEN { << >> }
  ELSE LET shorter == SeqsUpTo(S, n - 1)
       IN shorter \cup { Append(q, x) : q \in shorter, x \in S }

\* what performSearch may resolve to when at most n records are asked for
SearchOutcomes(n) ==
  { [ kind |-> "left" ], [ kind |-> "noRecords" ] }
    \cup { [ kind |-> "right", Records |-> rs ] : rs \in SeqsUpTo(RawRecords, n) }

extractItemData(items, name) ==
  IF items = << >> THEN NotAvailable
  ELSE IF \E i \in 1..Len(items) : items[i].Name = name
    THEN LET i == CHOOSE j \in 1..Len(items) :
                    /\ items[j].Name = name
                    /\ \A k \in 1..(j - 1) : items[k].Name # name
         IN IF items[i].Data = "" THEN NotAvailable ELSE items[i].Data
    ELSE NotAvailable

\* the first run of four digits of the text, as /(\d{4})/ finds it
FourDigits(text) ==
  CASE text = "Chilton, 1965" -> "1965"
    [] OTHER -> Null

extractPublicationYear(items) ==
  IF items = << >> THEN NaN
  ELSE LET titleSource == extractItemData(items, "TitleSource")
       IN IF FourDigits(titleSource) # Null
            THEN FourDigits(titleSource) ELSE NaN

extractSubjects(items) ==
  IF items = << >> THEN NotAvailable
  ELSE extractItemData(items, "Subject")

extractLocationInformation(record) ==
  IF record.Holdings # << >>
    THEN record.Holdings[1]
    ELSE << >>

\* transformToDisplayRecord rejects on a null record (record.Header)
TransformThrows(record) == record.null

transformToDisplayRecord(record) ==
  [ title |-> extractItemData(record.Items, "Title"),
    author |-> extractItemData(record.Items, "Author"),
    publicationYear |-> extractPublicationYear(record.Items),
    bookType |-> IF record.PubType = Undefined
                   THEN NotAvailable ELSE record.PubType,
    subjects |-> extractSubjects(record.Items),
    locationInformation |-> extractLocationInformation(record) ]

\* queryEbscoApi from the answer of performSearch to the call of endSession
queryEbscoApi(outcome) ==
  CASE outcome.kind = "left" -> [ kind |-> "left" ]
    [] outcome.kind = "noRecords" -> [ kind |-> "throw" ]
    [] outcome.kind = "right" ->
         IF \E i \in 1..Len(outcome.Records) :
              TransformThrows(outcome.Records[i])
           THEN [ kind |-> "left" ]
           ELSE [ kind |-> "endSession",
                  data |-> [ i \in 1..Len(outcome.Records) |->
                               transformToDisplayRecord(outcome.Records[i]) ] ]

\* variant: an empty result is returned as it is
searchForBookAllowsEmpty(dataResult) ==
  IF dataResult.kind = "left"
    THEN [ kind |-> "throw", message |-> "No results found due to an error." ]
    ELSE [ kind |-> "return", data |-> dataResult.data ]

\* searchForBook after `await queryEbscoApi(...)` has given a value
searchForBook(dataResult) ==
  IF dataResult.kind = "left"
    THEN [ kind |-> "throw", message |-> "No results found due to an error." ]
    ELSE IF Len(dataResult.data) > 0
      THEN [ kind |-> "return", data |-> dataResult.data ]
      ELSE [ kind |-> "throw", message |-> "No results found" ]

InitSearch ==
  /\ ClientInit
  /\ \E q \in Queries, n \in 1..MaxRecords :
       adapter = [ fn |-> "searchForBook", pc |-> "performSearch",
                   query |-> q, numOfBooks |-> n,
                   found |-> [ kind |-> "none" ],
                   result |-> [ kind |-> "none" ] ]

ClientIdle ==
  UNCHANGED << messages, isTyping, storage, isConnected,
               attemptedConnection, conversationHistory, curSession,
               socket, listeners, sendBuffer, outbox, phase, last,
               channels >>

\* performSearch is answered: the records are transformed
SearchAnswered ==
  /\ adapter.pc = "performSearch"
  /\ \E o \in SearchOutcomes(adapter.numOfBooks) :
       LET r == queryEbscoApi(o)
       IN adapter' =
            CASE r.kind = "endSession" ->
                   [ adapter EXCEPT !.pc = "endSession", !.found = r ]
              [] r.kind = "left" ->
                   [ adapter EXCEPT !.pc = "done", !.found = r,
                                    !.result = searchForBook(r) ]
              [] r.kind = "throw" ->
                   [ adapter EXCEPT !.pc = "done", !.found = r,
                                    !.result = [ kind |-> "throw",
                                                 message |-> "TypeError" ] ]
  /\ ClientIdle

\* endSession settles; queryEbscoApi gives right(data) or rejects
SessionEnded ==
  /\ adapter.pc = "endSession"
  /\ \E ok \in BOOLEAN :
       adapter' =
         IF ok
           THEN [ adapter EXCEPT
                    !.pc = "done",
                    !.result = searchForBook([ kind |-> "right",
                                               data |-> adapter.found.data ]) ]
           ELSE [ adapter EXCEPT
                    !.pc = "done",
                    !.result = [ kind |-> "throw",
                                 message |-> "endSession failed" ] ]
  /\ ClientIdle

NextSearch == SearchAnswered \/ SessionEnded

SpecSearch == InitSearch /\ [][NextSearch]_vars

\* ------------------------------------------------------------ LLM adapter
openaiModelNameList ==
  { "gpt-3.5-turbo", "gpt-3.5-turbo-0613", "gpt-3.5-turbo-0301",
    "gpt-4-0613", "gpt-4-0314", "gpt-4" }
ModelNames == openaiModelNameList \cup { "claude" }
PromptUsages == { 5, 10 }        \* tokens used to build the prompt
ResponseUsages == { 7, 20 }      \* tokens used by the provider's answer
Contents == { "Try the 2nd floor.", "Open until 9pm." }

\* LlmService.getModel: the model, or a thrown Error
getModelThrows(modelName) == modelName \notin openaiModelNameList

combineTokenUsage(a, b) == a + b

\* how the provider call may end
ProviderOutcomes ==
  { [ kind |-> "content", response |-> c, usage |-> u ] :
      c \in Contents, u \in ResponseUsages }
    \cup { [ kind |-> "noContent" ],     \* an answer whose message is empty
           [ kind |-> "noChoices" ],     \* an answer with choices = []
           [ kind |-> "failed" ] }       \* the request rejects

\* a promise made by `new Promise(async (resolve, reject) => ...)`: it
\* settles only through resolve or reject; an exception inside the async
\* executor rejects the executor's own promise, which nobody holds
Pending == [ state |-> "pending" ]
Resolved(v) == [ state |-> "resolved", value |-> v ]
Rejected(e) == [ state |-> "rejected", error |-> e ]

InitLlm ==
  /\ ClientInit
  /\ \E f \in { "LlmService", "OpenAIModel" } :
       \E m \in ModelNames :
         /\ f = "OpenAIModel" => m = "gpt-4-0613"
         /\ adapter = [ fn |-> f, pc |-> "start", modelName |-> m,
                        promptUsage |-> 0, executor |-> "running",
                        failure |-> "none", promise |-> Pending ]

\* the executor starts: LlmService looks the model up first
ExecutorStarts ==
  /\ adapter.pc = "start"
  /\ adapter' =
       IF adapter.fn = "LlmService" /\ getModelThrows(adapter.modelName)
         THEN [ adapter EXCEPT !.pc = "done", !.executor = "threw",
                               !.failure = "unknown model" ]
         ELSE [ adapter EXCEPT !.pc = "getPrompt" ]
  /\ ClientIdle

\* `await promptObject.getPrompt()` settles
PromptSettles ==
  /\ adapter.pc = "getPrompt"
  /\ \/ \E u \in PromptUsages :
          adapter' = [ adapter EXCEPT !.pc = "provider", !.promptUsage = u ]
     \/ adapter' = [ adapter EXCEPT !.pc = "done", !.executor = "threw",
                                    !.failure = "prompt" ]
  /\ ClientIdle

\* the provider call settles: createChatCompletion in OpenAIModel,
\* model.getModelResponse (an adapter of the same shape) in LlmService
ProviderSettles ==
  /\ adapter.pc = "provider"
  /\ \E o \in ProviderOutcomes :
       adapter' =
         CASE o.kind = "content" ->
                [ adapter EXCEPT
                    !.pc = "done", !.executor = "returned",
                    !.promise =
                      Resolved([ response |-> o.response,
                                 usage |->
                                   IF adapter.fn = "LlmService"
                                     THEN combineTokenUsage(
                                            adapter.promptUsage, o.usage)
                                     ELSE o.usage ]) ]
           [] o.kind = "noContent" ->
                IF adapter.fn = "OpenAIModel"
                  THEN [ adapter EXCEPT
                           !.pc = "done", !.executor = "returned",
                           !.failure = "no content",
                           !.promise = Rejected("No response from model") ]
                  ELSE [ adapter EXCEPT
                           !.pc = "done", !.executor = "threw",
                           !.failure = "no content" ]
           [] OTHER ->
                [ adapter EXCEPT !.pc = "done", !.executor = "threw",
                                 !.failure = "provider" ]
  /\ ClientIdle

NextLlm == ExecutorStarts \/ PromptSettles \/ ProviderSettles

SpecLlm == InitLlm /\ [][NextLlm]_vars

\* ------------------------------------------------------------------
\* OpenAIModel.getModelResponseWithCache (src/src/LLM/LLMModels.ts)

MaxCacheCalls == 3     \* calls of getModelResponseWithCache in a behaviour

\* prompt objects; two of them render to the same text
CachePrompts == { "hours", "hours again", "parking" }
CacheKeys == { "When do you open?", "Where can I park?" }

\* ModelPromptWithTools.toString(): the text the prompt renders to
promptToString(p) ==
  IF p = "parking" THEN "Where can I park?" ELSE "When do you open?"

\* RedisCacheService: get answers null when the key has no entry, set
\* puts the value under the key
cacheGet(cache, key) == cache[key]
cacheSet(cache, key, value) == [ cache EXCEPT ![key] = value ]

\* the promise getModelResponse hands back for a provider outcome: only
\* resolve and reject settle it, a throw inside the executor leaves it
\* pending
modelPromise(o) ==
  CASE o.kind = "content" -> Resolved(o.response)
    [] o.kind = "noContent" -> Rejected("No response from model")
    [] OTHER -> Pending

IdleCall ==
  [ pc |-> "idle", key |-> "none", startedAfterStore |-> FALSE,
    found |-> "none", result |-> "none", invoked |-> 0, sets |-> 0 ]

\* `const key = prompt.toString(); ... this.cacheService.get(key)`
startCall(call, cache, p) ==
  [ call EXCEPT !.pc = "get", !.key = promptToString(p),
                !.startedAfterStore =
                   cacheGet(cache, promptToString(p)) # Null ]

\* a variant that asks the model whatever the cache answered
afterCacheGetAlwaysAsks(call, result) ==
  [ call EXCEPT !.found = result, !.pc = "model",
                !.invoked = call.invoked + 1 ]

\* `let result = await get(key); if (result === null) { ... } return result`
afterCacheGet(call, result) ==
  IF result = Null
    THEN [ call EXCEPT !.found = result, !.pc = "model",
                       !.invoked = call.invoked + 1 ]
    ELSE [ call EXCEPT !.found = result, !.pc = "returned",
                       !.result = result ]

\* `result = await this.getModelResponse(prompt)`: the await goes on to
\* set() with the value, throws the rejection, or never ends
afterModel(call, promise) ==
  CASE promise.state = "resolved" ->
         [ call EXCEPT !.pc = "set", !.result = promise.value ]
    [] promise.state = "rejected" -> [ call EXCEPT !.pc = "threw" ]
    [] OTHER -> [ call EXCEPT !.pc = "pending" ]

InitCache ==
  /\ ClientInit
  /\ adapter = [ fn |-> "getModelResponseWithCache",
                 cache |-> [ k \in CacheKeys |-> Null ],
                 stored |-> { },
                 call |-> [ c \in 1 .. MaxCacheCalls |-> IdleCall ] ]

CallStarts(c) ==
  /\ adapter.call[c].pc = "idle"
  /\ \E p \in CachePrompts :
       adapter' = [ adapter EXCEPT
                      !.call[c] = startCall(@, adapter.cache, p) ]
  /\ ClientIdle

\* `await this.cacheService.get(key)` settles
CacheGetSettles(c) ==
  /\ adapter.call[c].pc = "get"
  /\ adapter' = [ adapter EXCEPT
                    !.call[c] =
                       afterCacheGet(@, cacheGet(adapter.cache, @.key)) ]
  /\ ClientIdle

\* `await this.getModelResponse(prompt)` settles, or is seen to hang
ModelSettles(c) ==
  /\ adapter.call[c].pc = "model"
  /\ \E o \in ProviderOutcomes :
       adapter' = [ adapter EXCEPT
                      !.call[c] = afterModel(@, modelPromise(o)) ]
  /\ ClientIdle

\* `await this.cacheService.set(key, result)` settles; `return result`
CacheSetSettles(c) ==
  /\ adapter.call[c].pc = "set"
  /\ adapter' =
       [ adapter EXCEPT
           !.cache = cacheSet(@, adapter.call[c].key,
                              adapter.call[c].result),
           !.stored = @ \cup { << adapter.call[c].key,
                                  adapter.call[c].result >> },
           !.call[c] = [ @ EXCEPT !.pc = "returned",
                                  !.sets = @ + 1 ] ]
  /\ ClientIdle

NextCache ==
  \E c \in 1 .. MaxCacheCalls :
    \/ CallStarts(c)
    \/ CacheGetSettles(c)
    \/ ModelSettles(c)
    \/ CacheSetSettles(c)

SpecCache == InitCache /\ [][NextCache]_vars

\* ==================================================================== claims
ChatbotEntry(p) ==
  [ id |-> p.messageId, text |-> p.message, sender |-> "chatbot" ]

WelcomeCount(log) ==
  Cardinality({ i \in 1..Len(log) : log[i] = welcomeMessage })

\* C1: every inbound `message` event {messageId, message} appends exactly
\* the entry {id: messageId, text: message, sender: 'chatbot'} at the end of
\* the log and leaves the earlier entries as they were.
MessageAppendsOneInOrder ==
  [][ \A p \in MsgPayloads :
        (last'.ev = "message" /\ last'.arg = p)
          => messages' = Append(messages, ChatbotEntry(p)) ]_vars

\* two deliveries, in delivery order, after the welcome message
MessageAppendsOneInOrderWitness ==
  /\ last.ev = "message"
  /\ Len(messages) = 3
  /\ messages[1] = welcomeMessage
  /\ messages[2].id = "43" /\ messages[3].id = "42"

\* C2: within one mounted instance the welcome message is in the log exactly
\* once as soon as the session is disarmed, and not at all while curSession
\* is still (or again) true.
WelcomeExactlyOnce ==
  WelcomeCount(messages) = IF curSession THEN 0 ELSE 1

\* a reconnect: the last event is `connect`, yet a message was delivered
\* after the welcome injection
WelcomeExactlyOnceWitness ==
  /\ last.ev = "connect"
  /\ Len(messages) >= 2
  /\ messages[1] = welcomeMessage
  /\ messages[2].sender = "chatbot" /\ messages[2].id # Undefined

\* C3: a `disconnect` with reason 'io client disconnect' yields an empty
\* log, curSession = true and a channel that is opening again, and
\* delivering it a second time changes nothing.
ResetYieldsFreshSession ==
  /\ last.reason = ICD
       => messages = << >> /\ curSession /\ socket = "opening"
  /\ (socket = "open" /\ listeners["disconnect"] > 0)
       => LET once == disconnect(Cur)
              twice == dispatch(once, "disconnect", ICD)
          IN /\ once.messages = << >>
             /\ once.curSession
             /\ once.socket = "opening"
             /\ twice = once

\* a reset that followed an unexpected error, so the log was not empty
ResetYieldsFreshSessionWitness ==
  /\ last.ev = "sendUserFeedback" /\ last.reason = ICD
  /\ conversationHistory # ""
  /\ messages = << >>

\* C4: each `unexpected_error` event clears the typing flag, makes the log
\* exactly one entry longer, and stores its payload as the snapshot.
UnexpectedErrorAppendsOne ==
  [][ last'.ev = "unexpected_error"
        => /\ ~isTyping'
           /\ Len(messages') = Len(messages) + 1
           /\ conversationHistory' = last'.arg ]_vars

\* C5 (as stated): while isConnected = false, sendUserMessage emits nothing
\* and leaves the log alone.
SendWhileNotConnectedIsNoop ==
  [][ (last'.ev = "sendUserMessage" /\ ~isConnected)
        => UNCHANGED << outbox, sendBuffer, messages >> ]_vars

\* C5 (amended): while the channel reference is absent (socket.current is
\* null), sendUserMessage emits nothing and changes no state.
SendWithoutChannelIsNoop ==
  [][ (last'.ev = "sendUserMessage" /\ socket = Null)
        => UNCHANGED << outbox, sendBuffer, messages, isTyping, storage,
                        isConnected, attemptedConnection,
                        conversationHistory, curSession, socket,
                        listeners >> ]_vars

SendWithoutChannelIsNoopWitness ==
  /\ last.ev = "sendUserMessage"
  /\ socket = Null
  /\ ~isConnected
  /\ outbox = << >> /\ sendBuffer = << >>

\* C6: in the state right after an inbound `message`, `unexpected_error` or
\* `disconnect` event (any reason), isTyping is false.
TypingClearedByTerminalEvent ==
  (last.ev \in { "message", "unexpected_error", "disconnect" }
     \/ last.reason = ICD)
    => ~isTyping

\* C7: a `disconnect` not requested by the client, a `connect_error` and a
\* `connect_timeout` set isConnected = false and attemptedConnection = true
\* and leave the log, curSession and the snapshot unchanged.
TransientFailureFrame ==
  [][ last'.ev \in { "disconnect", "connect_error", "connect_timeout" }
        => /\ ~isConnected'
           /\ attemptedConnection'
           /\ UNCHANGED << messages, curSession, conversationHistory >> ]_vars

\* a failure event handled while the log and the snapshot are not empty
TransientFailureFrameWitness ==
  /\ last.ev = "disconnect"
  /\ ~isConnected /\ attemptedConnection
  /\ Len(messages) >= 2
  /\ conversationHistory # ""
  /\ ~curSession

\* C8: after the reset transition the log is empty, the typing flag is
\* down and the history snapshot is empty.
ResetClearsSnapshot ==
  last.reason = ICD
    => messages = << >> /\ ~isTyping /\ conversationHistory = ""

\* C9: the storage slot holds the serialization of the current log, and
\* loading it gives back the same ordered sequence of messages.
StorageMirrorsLog ==
  /\ storage # << >> => storage = setItem(JSONstringify(messages))
  /\ LoadMessages(storage) = messages

\* a persisted log with the welcome message, a user entry and a delivery
StorageMirrorsLogWitness ==
  /\ storage # << >>
  /\ Len(messages) = 3
  /\ messages[1] = welcomeMessage
  /\ messages[2].sender = "user"
  /\ messages[3].id # Undefined

\* C10: after unmount every inbound listener is detached and the channel is
\* closed, and the conversation state does not change any more.
UnmountDetachesEverything ==
  /\ [](phase = "unmounted"
          => /\ \A e \in EventNames : listeners[e] = 0
             /\ socket = "closed")
  /\ [][ phase = "unmounted"
           => UNCHANGED << messages, isTyping, storage, isConnected,
                           attemptedConnection, conversationHistory,
                           curSession, socket >> ]_vars

\* the part of C10 that the code does keep: a closed channel that stays
\* closed and a state that stays as it is
QuietAfterUnmount ==
  /\ [](phase = "unmounted" => socket = "closed")
  /\ [][ phase = "unmounted"
           => UNCHANGED << messages, isTyping, storage, isConnected,
                           attemptedConnection, conversationHistory,
                           curSession, socket >> ]_vars
  /\ [][ last'.ev = "unmount"
           => UNCHANGED << messages, isTyping, storage, isConnected,
                           attemptedConnection, conversationHistory,
                           curSession >> ]_vars
\* C11: sendUserFeedback emits `userFeedback` and then closes the channel:
\* on an open channel the event is the last one to reach the backend and
\* the channel is no longer open afterwards; while the channel is not open
\* (until the next `connect`) no step adds an event to what the backend
\* has received.
FeedbackThenClose ==
  /\ [][ (last'.ev = "sendUserFeedback" /\ socket = "open")
           => /\ outbox' = Append(outbox, [ ev |-> "userFeedback",
                                            arg |-> last'.arg ])
              /\ socket' # "open" ]_vars
  /\ [][ (last'.ev = "sendUserFeedback" /\ socket \in { "opening", "closed" })
           => /\ outbox' = outbox
              /\ sendBuffer' = Append(sendBuffer, [ ev |-> "userFeedback",
                                                    arg |-> last'.arg ])
              /\ socket' = "closed" ]_vars
  /\ [][ (socket' # "open" /\ last'.ev # "sendUserFeedback")
           => outbox' = outbox ]_vars

\* a message sent after the feedback, before the next `connect`: it is
\* buffered, and the feedback is the last event the backend has received
FeedbackThenCloseWitness ==
  /\ last.ev = "sendUserMessage"
  /\ socket = "opening"
  /\ Len(outbox) = 1 /\ outbox[1].ev = "userFeedback"
  /\ Len(sendBuffer) = 1 /\ sendBuffer[1].ev = "message"

\* C12: an `unexpected_error` event sets isConnected = false and leaves the
\* channel open with its listeners attached; sendUserMessage and
\* offlineTicketSubmit called afterwards still send their events.
ErrorKeepsChannelOpen ==
  /\ [][ last'.ev = "unexpected_error"
           => /\ ~isConnected'
              /\ socket' = "open"
              /\ listeners' = listeners ]_vars
  /\ [][ (last'.ev \in { "sendUserMessage", "offlineTicketSubmit" }
            /\ socket = "open" /\ ~isConnected)
           => outbox' = Append(outbox,
                 [ ev |-> IF last'.ev = "sendUserMessage"
                            THEN "message" ELSE "createTicket",
                   arg |-> last'.arg ]) ]_vars

\* a ticket submitted on the open channel after an unexpected error
ErrorKeepsChannelOpenWitness ==
  /\ last.ev = "offlineTicketSubmit"
  /\ ~isConnected /\ socket = "open"
  /\ conversationHistory # ""
  /\ outbox # << >> /\ outbox[Len(outbox)].ev = "createTicket"

\* C15: sendUserMessage, offlineTicketSubmit and sendMessageRating leave the
\* log, isTyping, isConnected, attemptedConnection, curSession and the
\* snapshot unchanged; with a channel present they add exactly one outbound
\* event (sent or buffered), and nothing else changes.
EmitOperationsFrame ==
  [][ last'.ev \in { "sendUserMessage", "offlineTicketSubmit",
                       "sendMessageRating" }
        => /\ UNCHANGED << messages, isTyping, storage, isConnected,
                           attemptedConnection, curSession,
                           conversationHistory, socket, listeners >>
           /\ Len(outbox') + Len(sendBuffer')
                = Len(outbox) + Len(sendBuffer)
                    + (IF socket = Null THEN 0 ELSE 1) ]_vars

\* a rating sent on an open channel in the middle of a conversation
EmitOperationsFrameWitness ==
  /\ last.ev = "sendMessageRating"
  /\ socket = "open" /\ isConnected
  /\ isTyping
  /\ Len(messages) >= 2
  /\ outbox # << >> /\ outbox[Len(outbox)].ev = "messageRating"
\* C13: an instance owns at most one channel: running the connection
\* effect while socket.current already holds a channel creates no second
\* channel.
EffectCreatesNoSecondChannel ==
  /\ [](channels <= 1)
  /\ [][ (last'.ev \in { "mount", "remount" } /\ socket # Null)
           => channels' = channels ]_vars

\* C14: no inbound-event handler throws, whatever the payload: every
\* delivery ends in a state update.
NoHandlerThrows == ~last.threw

\* C19: across a reload with the log restored from session storage the
\* welcome message is not injected a second time.
WelcomeOnceAcrossReload ==
  /\ [](WelcomeCount(messages) <= 1)
  /\ [][ (last'.ev = "connect" /\ WelcomeCount(messages) >= 1)
           => messages' = messages ]_vars
\* C16: toolRunForLlm always ends by returning a text and never throws: a
\* missing bookingID gives the missing-parameter text without a call of
\* the reservation API, cancelled = false gives the not-cancelled text with
\* the error, and a failed call gives a text as well.
ToolRunAlwaysReturnsText ==
  adapter.pc = "done"
    => /\ adapter.result.kind = "return"
       /\ MissingBookingID(adapter.bookingID)
            => /\ adapter.result.text = "missing parameter bookingID"
               /\ adapter.posts = 0
\* C17: searchForBook ends either by returning a non-empty array of display
\* records (one per record found) or by failing with an error; a failed
\* search and a search with zero records both end in an error.
SearchNeverReturnsEmpty ==
  adapter.pc = "done"
    => /\ adapter.result.kind \in { "return", "throw" }
       /\ adapter.result.kind = "return"
            => /\ Len(adapter.result.data) > 0
               /\ adapter.found.kind = "endSession"
               /\ adapter.result.data = adapter.found.data
       /\ (adapter.found.kind \in { "left", "throw" }
             \/ (adapter.found.kind = "endSession"
                   /\ adapter.found.data = << >>))
            => adapter.result.kind = "throw"

\* a search that succeeded with zero records and ended in an error
SearchNeverReturnsEmptyWitness ==
  /\ adapter.fn = "searchForBook" /\ adapter.pc = "done"
  /\ adapter.found.kind = "endSession"
  /\ adapter.found.data = << >>
  /\ adapter.result = [ kind |-> "throw", message |-> "No results found" ]
\* C18: once the executor of getModelResponse has finished, the promise is
\* settled: resolved when the provider answered with content, rejected in
\* every failure case.
PromiseAlwaysSettles ==
  adapter.pc = "done"
    => /\ adapter.promise.state \in { "resolved", "rejected" }
       /\ adapter.failure # "none" => adapter.promise.state = "rejected"
\* C20: in the provider variant, after the single mount the inbound
\* handlers are attached: the first `connect` sets isConnected = true and
\* injects the welcome message, and `message` events are appended to the
\* log.
VariantHandlersAttached ==
  /\ [](last.ev = "connect"
          => /\ \A e \in VariantEvents : listeners[e] >= 1
             /\ isConnected
             /\ WelcomeCount(messages) = 1)
  /\ [][ last'.ev = "message"
           => Len(messages') = Len(messages) + 1 ]_vars
\* C21: isConnected reflects the channel: while the provider is mounted,
\* isConnected = TRUE only when the most recent channel lifecycle event
\* handled was `connect` (the channel is open); after a `disconnect` with
\* reason 'io client disconnect' isConnected is false until the next
\* `connect`.
IsConnectedReflectsChannel ==
  /\ (phase = "mounted" /\ isConnected) => socket = "open"
  /\ last.reason = ICD => ~isConnected
====
